---- MODULE Spec2Model ----
(***************************************************************************)
(* The chat front end of FinanceHelper: the message-rendering pipeline of  *)
(* ChatMessage.vue (parseSegments, extractRawMermaid, sanitizeMermaid,     *)
(* escapeHtml, render) and the shared chat transcript of useChat.          *)
(*                                                                         *)
(* A JavaScript string is a sequence of one-character strings.  Positions  *)
(* are 1-based: the JavaScript index i is position i + 1.                  *)
(***************************************************************************)
EXTENDS Integers, Sequences, FiniteSets, TLC

VARIABLES
    text,        \* parseSegments: its argument
    segments,    \* parseSegments: the list it returned
    segPc,       \* "idle" (not used), "start" (argument chosen), "parsed"
    sanParts,    \* sanitizeMermaid: its argument, as the text before a
                 \* bracketed label, the label and the text after it
    sanitized,   \* sanitizeMermaid: the text it returned
    sanPc,       \* "idle", "start", "done"
    content,     \* ChatMessage: props.content
    mounted,     \* ChatMessage: onMounted has run
    rendered,    \* ChatMessage: rendered.value, the displayed list
    invs,        \* ChatMessage: the render() invocations, in call order
    namespace,   \* the ids of the elements registered in the document
    nextId,      \* the ids drawn so far (Date.now() and Math.random())
    messages,    \* useChat: messages.value, the transcript
    loading,     \* useChat: loading.value
    calls,       \* useChat: the calls of sendMessage, in call order, each
                 \* with the messages it pushed
    cleared      \* useChat: clearChat has run

segVars == <<text, segments, segPc>>
sanVars == <<sanParts, sanitized, sanPc>>
renderVars == <<content, mounted, rendered, invs, namespace, nextId>>
chatVars == <<messages, loading, calls, cleared>>
vars == <<text, segments, segPc, sanParts, sanitized, sanPc,
          content, mounted, rendered, invs, namespace, nextId,
          messages, loading, calls, cleared>>

IdleSeg == text = <<>> /\ segments = <<>> /\ segPc = "idle"

IdleSan ==
    /\ sanParts = [pre |-> <<>>, label |-> <<>>, post |-> <<>>]
    /\ sanitized = <<>>
    /\ sanPc = "idle"

IdleRender ==
    /\ content = <<>>
    /\ mounted = FALSE
    /\ rendered = <<>>
    /\ invs = <<>>
    /\ namespace = {}
    /\ nextId = 0

IdleChat ==
    /\ messages = <<>>
    /\ loading = FALSE
    /\ calls = <<>>
    /\ cleared = FALSE

----------------------------------------------------------------------------
(* String primitives                                                       *)

WhiteSpace == {" ", "\t", "\n"}

WordChars ==
    {"a","b","c","d","e","f","g","h","i","j","k","l","m","n","o","p","q","r",
     "s","t","u","v","w","x","y","z",
     "A","B","C","D","E","F","G","H","I","J","K","L","M","N","O","P","Q","R",
     "S","T","U","V","W","X","Y","Z",
     "0","1","2","3","4","5","6","7","8","9","_"}

SetMin(S) == CHOOSE x \in S : \A y \in S : x <= y

SetMax(S) == CHOOSE x \in S : \A y \in S : y <= x

RECURSIVE Concat(_)
Concat(parts) ==
    IF parts = <<>> THEN <<>> ELSE Head(parts) \o Concat(Tail(parts))

\* s.startsWith(p), tested at position i
StartsWithAt(s, p, i) ==
    /\ i >= 1
    /\ i + Len(p) - 1 <= Len(s)
    /\ \A k \in 1..Len(p) : s[i + k - 1] = p[k]

StartsWith(s, p) == StartsWithAt(s, p, 1)

EndsWith(s, p) == Len(p) <= Len(s) /\ StartsWithAt(s, p, Len(s) - Len(p) + 1)

Includes(s, p) == \E i \in 1..Len(s) : StartsWithAt(s, p, i)

\* the first position >= from where p occurs in s, 0 when there is none
IndexOfFrom(s, p, from) ==
    LET hits == {i \in from..Len(s) : StartsWithAt(s, p, i)}
    IN  IF hits = {} THEN 0 ELSE SetMin(hits)

\* s.trim()
Trim(s) ==
    LET keep == {i \in 1..Len(s) : s[i] \notin WhiteSpace}
    IN  IF keep = {} THEN <<>> ELSE SubSeq(s, SetMin(keep), SetMax(keep))

\* s.split('\n')
RECURSIVE SplitLines(_)
SplitLines(s) ==
    LET i == IndexOfFrom(s, <<"\n">>, 1)
    IN  IF i = 0 THEN <<s>>
        ELSE <<SubSeq(s, 1, i - 1)>> \o SplitLines(SubSeq(s, i + 1, Len(s)))

\* lines.join('\n')
RECURSIVE JoinLines(_)
JoinLines(lines) ==
    IF lines = <<>> THEN <<>>
    ELSE IF Len(lines) = 1 THEN lines[1]
    ELSE lines[1] \o <<"\n">> \o JoinLines(Tail(lines))

\* the first position >= j of s that holds no white space (Len(s) + 1 if none)
WsRunEnd(s, j) ==
    SetMin({k \in j..(Len(s) + 1) : k = Len(s) + 1 \/ s[k] \notin WhiteSpace})

----------------------------------------------------------------------------
(* The segmenter: FENCED_MERMAID, MERMAID_KEYWORDS, extractRawMermaid,     *)
(* parseSegments                                                           *)

\* the backquote character, which a TLA+ string cannot hold
BQ == "BACKQUOTE"

FenceOpen == <<BQ, BQ, BQ, "m", "e", "r", "m", "a", "i", "d">>

FenceClose == <<BQ, BQ, BQ>>

NoMatch == [index |-> 0, body |-> <<>>, end |-> 0]

\* FencedMatchAt with the closing fence left unconsumed (last stops before it)
FencedMatchAtOpenEnd(s, i) ==
    LET j   == i + Len(FenceOpen)
        k   == WsRunEnd(s, j)
        nls == {n \in j..(k - 1) : s[n] = "\n"}
    IN  IF ~StartsWithAt(s, FenceOpen, i) \/ nls = {} THEN NoMatch
        ELSE LET n == SetMax(nls)
                 c == IndexOfFrom(s, FenceClose, n + 1)
             IN  IF c = 0 THEN NoMatch
                 ELSE [index |-> i, body |-> SubSeq(s, n + 1, c - 1), end |-> c]

\* FENCED_MERMAID (line 42) tried at position i.
\* The greedy \s* backs off to the last newline of the white-space run; the
\* lazy body ends at the first closing fence.  end is the position after
\* the match.
FencedMatchAt(s, i) ==
    LET j   == i + Len(FenceOpen)
        k   == WsRunEnd(s, j)
        nls == {n \in j..(k - 1) : s[n] = "\n"}
    IN  IF ~StartsWithAt(s, FenceOpen, i) \/ nls = {} THEN NoMatch
        ELSE LET n == SetMax(nls)
                 c == IndexOfFrom(s, FenceClose, n + 1)
             IN  IF c = 0 THEN NoMatch
                 ELSE [index |-> i, body |-> SubSeq(s, n + 1, c - 1),
                       end |-> c + Len(FenceClose)]

\* the next match of the /g expression from position from (its lastIndex)
NextFencedMatch(s, from) ==
    LET hits == {i \in from..Len(s) : FencedMatchAt(s, i).index # 0}
    IN  IF hits = {} THEN NoMatch ELSE FencedMatchAt(s, SetMin(hits))

MERMAID_KEYWORDS ==
    { <<"f", "l", "o", "w", "c", "h", "a", "r", "t">>,
      <<"g", "r", "a", "p", "h">>,
      <<"s", "e", "q", "u", "e", "n", "c", "e", "D", "i", "a", "g", "r", "a", "m">>,
      <<"c", "l", "a", "s", "s", "D", "i", "a", "g", "r", "a", "m">>,
      <<"s", "t", "a", "t", "e", "D", "i", "a", "g", "r", "a", "m">>,
      <<"e", "r", "D", "i", "a", "g", "r", "a", "m">>,
      <<"g", "a", "n", "t", "t">>,
      <<"p", "i", "e">>,
      <<"g", "i", "t", "g", "r", "a", "p", "h">>,
      <<"m", "i", "n", "d", "m", "a", "p">>,
      <<"t", "i", "m", "e", "l", "i", "n", "e">> }

\* a keyword followed by a word boundary (\b) at position i
KeywordAt(s, i) ==
    \E kw \in MERMAID_KEYWORDS :
        /\ StartsWithAt(s, kw, i)
        /\ (i + Len(kw) > Len(s) \/ s[i + Len(kw)] \notin WordChars)

\* text.match(MERMAID_KEYWORDS).index + 1, 0 for no match: with the m flag,
\* ^ matches at the start of the text and after every newline
KeywordIndex(s) ==
    LET hits == {i \in 1..Len(s) :
                    (i = 1 \/ s[i - 1] = "\n") /\ KeywordAt(s, i)}
    IN  IF hits = {} THEN 0 ELSE SetMin(hits)

\* /^\s*\w+[\[({]/.test(stripped)
NodeDeclTest(s) ==
    LET a == WsRunEnd(s, 1)
        b == SetMin({k \in a..(Len(s) + 1) :
                        k = Len(s) + 1 \/ s[k] \notin WordChars})
    IN  b > a /\ b <= Len(s) /\ s[b] \in {"[", "(", "{"}

\* the condition of lines 59-74: the line stays in the diagram
IsDiagramLine(line) ==
    LET stripped == Trim(line)
    IN  \/ stripped = <<>>
        \/ StartsWith(line, <<" ", " ", " ", " ">>)
        \/ StartsWith(line, <<"\t">>)
        \/ KeywordIndex(line) # 0
        \/ StartsWith(stripped, <<"s", "t", "y", "l", "e", " ">>)
        \/ StartsWith(stripped, <<"c", "l", "a", "s", "s", "D", "e", "f", " ">>)
        \/ StartsWith(stripped, <<"c", "l", "a", "s", "s", " ">>)
        \/ Includes(stripped, <<"-", "-", ">">>)
        \/ Includes(stripped, <<"-", "-", "-">>)
        \/ Includes(stripped, <<"-", ".", "-", ">">>)
        \/ StartsWith(stripped, <<"s", "u", "b", "g", "r", "a", "p", "h">>)
        \/ StartsWith(stripped, <<"e", "n", "d">>)
        \/ StartsWith(stripped, <<"d", "i", "r", "e", "c", "t", "i", "o", "n", " ">>)
        \/ NodeDeclTest(stripped)

\* ScanLines without the inDiagram latch: a diagram line after the first
\* prose line goes back into the diagram
RECURSIVE ScanLinesNoLatch(_, _, _, _, _)
ScanLinesNoLatch(lines, i, inDiagram, mermaidLines, restLines) ==
    IF i > Len(lines) THEN [mermaidLines |-> mermaidLines, restLines |-> restLines]
    ELSE IF IsDiagramLine(lines[i])
         THEN ScanLinesNoLatch(lines, i + 1, TRUE, Append(mermaidLines, lines[i]), restLines)
         ELSE ScanLinesNoLatch(lines, i + 1, FALSE, mermaidLines, Append(restLines, lines[i]))

\* the for loop of lines 56-83 from line i on
RECURSIVE ScanLines(_, _, _, _, _)
ScanLines(lines, i, inDiagram, mermaidLines, restLines) ==
    IF i > Len(lines) THEN [mermaidLines |-> mermaidLines, restLines |-> restLines]
    ELSE IF inDiagram /\ IsDiagramLine(lines[i])
         THEN ScanLines(lines, i + 1, TRUE, Append(mermaidLines, lines[i]), restLines)
         ELSE ScanLines(lines, i + 1, FALSE, mermaidLines, Append(restLines, lines[i]))

\* the while loop of lines 86-88
RECURSIVE PopBlankLines(_)
PopBlankLines(mermaidLines) ==
    IF Len(mermaidLines) > 0 /\ Trim(mermaidLines[Len(mermaidLines)]) = <<>>
    THEN PopBlankLines(SubSeq(mermaidLines, 1, Len(mermaidLines) - 1))
    ELSE mermaidLines

NoRaw == [found |-> FALSE, before |-> <<>>, mermaid |-> <<>>, after |-> <<>>]

extractRawMermaid(s) ==
    LET startIdx == KeywordIndex(s)
    IN  IF startIdx = 0 THEN NoRaw
        ELSE LET before == SubSeq(s, 1, startIdx - 1)
                 lines  == SplitLines(SubSeq(s, startIdx, Len(s)))
                 scan   == ScanLines(lines, 1, TRUE, <<>>, <<>>)
             IN  [found   |-> TRUE,
                  before  |-> Trim(before),
                  mermaid |-> Trim(JoinLines(PopBlankLines(scan.mermaidLines))),
                  after   |-> Trim(JoinLines(scan.restLines))]

Md(s) == [type |-> "md", text |-> s]

Mermaid(s) == [type |-> "mermaid", text |-> s]

\* the matchAll loop of lines 134-138; last is the position after the
\* previous match
RECURSIVE FencedLoop(_, _, _)
FencedLoop(s, last, segs) ==
    LET m == NextFencedMatch(s, last)
    IN  IF m.index = 0 THEN [segments |-> segs, last |-> last]
        ELSE FencedLoop(s, m.end,
                 segs \o (IF m.index > last
                          THEN <<Md(SubSeq(s, last, m.index - 1))>> ELSE <<>>)
                      \o <<Mermaid(Trim(m.body))>>)

parseSegments(s) ==
    LET f == FencedLoop(s, 1, <<>>)
    IN  IF Len(f.segments) > 0
        THEN f.segments \o (IF f.last <= Len(s)
                            THEN <<Md(SubSeq(s, f.last, Len(s)))>> ELSE <<>>)
        ELSE LET raw == extractRawMermaid(s)
             IN  IF raw.found
                 THEN (IF raw.before # <<>> THEN <<Md(raw.before)>> ELSE <<>>)
                      \o <<Mermaid(raw.mermaid)>>
                      \o (IF raw.after # <<>> THEN <<Md(raw.after)>> ELSE <<>>)
                 ELSE <<Md(s)>>

----------------------------------------------------------------------------
(* escapeHtml and sanitizeMermaid                                          *)

RECURSIVE MapChars(_, _)
\* s with every character c in the domain of m replaced by m[c]
MapChars(s, m) ==
    IF s = <<>> THEN <<>>
    ELSE (IF Head(s) \in DOMAIN m THEN m[Head(s)] ELSE <<Head(s)>>)
         \o MapChars(Tail(s), m)

\* text.replace(/c/g, r) for a single character c
ReplaceChar(s, c, r) == MapChars(s, [x \in {c} |-> r])

\* escapeHtml with & escaped last: the & of &lt; and &gt; is escaped again
escapeHtmlAmpLast(s) ==
    CHOOSE out \in
        { ReplaceChar(gt, "&", <<"&", "a", "m", "p", ";">>) :
            gt \in { ReplaceChar(lt, ">", <<"&", "g", "t", ";">>) :
                lt \in { ReplaceChar(str, "<", <<"&", "l", "t", ";">>) :
                    str \in {s} } } } : TRUE

\* escapeHtml (lines 97-99): the three replacements in the order of the
\* code, each applied to the whole result of the one before
escapeHtml(s) ==
    CHOOSE out \in
        { ReplaceChar(lt, ">", <<"&", "g", "t", ";">>) :
            lt \in { ReplaceChar(amp, "<", <<"&", "l", "t", ";">>) :
                amp \in { ReplaceChar(str, "&", <<"&", "a", "m", "p", ";">>) :
                    str \in {s} } } } : TRUE

\* .replace(/;\s*$/gm, ''): from a semicolon, the greedy \s* backs off to
\* the last place of the white-space run where a line ends
RECURSIVE StripSemicolons(_, _)
StripSemicolons(s, p) ==
    IF p > Len(s) THEN <<>>
    ELSE LET k    == WsRunEnd(s, p + 1)
             ends == {q \in (p + 1)..k : q = Len(s) + 1 \/ s[q] = "\n"}
         IN  IF s[p] = ";" /\ ends # {}
             THEN StripSemicolons(s, SetMax(ends))
             ELSE <<s[p]>> \o StripSemicolons(s, p + 1)

SpecialLabelChars == {"(", ")", "/", ":", "\""}

Quote == <<"\"">>

\* QuoteLabel without the trim: the label is wrapped with its white space
QuoteLabelUntrimmed(label) ==
    LET t == Trim(label)
    IN  IF StartsWith(t, Quote) /\ EndsWith(t, Quote) THEN label
        ELSE IF \E i \in 1..Len(t) : t[i] \in SpecialLabelChars
             THEN Quote \o ReplaceChar(label, "\"", <<>>) \o Quote
             ELSE label

\* the replacement function of lines 106-113, without the brackets
QuoteLabel(label) ==
    LET t == Trim(label)
    IN  IF StartsWith(t, Quote) /\ EndsWith(t, Quote) THEN label
        ELSE IF \E i \in 1..Len(t) : t[i] \in SpecialLabelChars
             THEN Quote \o ReplaceChar(t, "\"", <<>>) \o Quote
             ELSE label

\* .replace(/\[([^\]]+)\]/g, ...)
RECURSIVE QuoteNodeLabels(_, _)
QuoteNodeLabels(s, p) ==
    IF p > Len(s) THEN <<>>
    ELSE LET c == IndexOfFrom(s, <<"]">>, p + 1)
         IN  IF s[p] = "[" /\ c > p + 1
             THEN <<"[">> \o QuoteLabel(SubSeq(s, p + 1, c - 1)) \o <<"]">>
                  \o QuoteNodeLabels(s, c + 1)
             ELSE <<s[p]>> \o QuoteNodeLabels(s, p + 1)

\* label.replace(/\(/g, '#40;').replace(/\)/g, '#41;')
EscapeParens(label) ==
    ReplaceChar(ReplaceChar(label, "(", <<"#", "4", "0", ";">>),
                ")", <<"#", "4", "1", ";">>)

\* .replace(/\|([^|]*)\|/g, ...)
RECURSIVE EscapePipeParens(_, _)
EscapePipeParens(s, p) ==
    IF p > Len(s) THEN <<>>
    ELSE LET c == IndexOfFrom(s, <<"|">>, p + 1)
         IN  IF s[p] = "|" /\ c # 0
             THEN <<"|">> \o EscapeParens(SubSeq(s, p + 1, c - 1)) \o <<"|">>
                  \o EscapePipeParens(s, c + 1)
             ELSE <<s[p]>> \o EscapePipeParens(s, p + 1)

\* the length of the arrowhead (-->|-.->|==>|\.\.>|\.->) at position e, 0 if
\* none; the dot of -.-> is unescaped and matches any character but a line
\* break
ArrowLenAt(s, e) ==
    IF StartsWithAt(s, <<"-", "-", ">">>, e) THEN 3
    ELSE IF /\ e + 3 <= Len(s)
            /\ s[e] = "-" /\ s[e + 1] # "\n" /\ s[e + 2] = "-" /\ s[e + 3] = ">"
         THEN 4
    ELSE IF \/ StartsWithAt(s, <<"=", "=", ">">>, e)
            \/ StartsWithAt(s, <<".", ".", ">">>, e)
            \/ StartsWithAt(s, <<".", "-", ">">>, e)
         THEN 3
    ELSE 0

\* (--|\.\.|-\.) at position i
LineStyleAt(s, i) ==
    \/ StartsWithAt(s, <<"-", "-">>, i)
    \/ StartsWithAt(s, <<".", ".">>, i)
    \/ StartsWithAt(s, <<"-", ".">>, i)

\* The ways the edge-label expression of line 120 matches at position i:
\* <<w1, n, w2>> for w1 white-space characters, a label of n characters
\* none of which is | > " or a line break, w2 white-space characters and
\* an arrowhead.
EdgeLabelSplits(s, i) ==
    LET p1 == i + 2
    IN  UNION { UNION { { <<w1, n, w2>> :
                            w2 \in {w \in 1..(WsRunEnd(s, p1 + w1 + n) - (p1 + w1 + n)) :
                                       ArrowLenAt(s, p1 + w1 + n + w) > 0} } :
                        n \in {m \in 1..(Len(s) - (p1 + w1) + 1) :
                                  \A k \in 0..(m - 1) :
                                     s[p1 + w1 + k] \notin {"|", ">", "\n", "\""}} } :
                w1 \in 1..(WsRunEnd(s, p1) - p1) }

\* the split the backtracking finds first: the longest first white space,
\* then the shortest label, then the longest second white space
FirstSplit(C) ==
    CHOOSE c \in C : \A d \in C :
        \/ c[1] > d[1]
        \/ c[1] = d[1] /\ c[2] < d[2]
        \/ c[1] = d[1] /\ c[2] = d[2] /\ c[3] >= d[3]

\* .replace(/(--|\.\.|-\.)\s+([^|>\n"]+?)\s+(-->|-.->|==>|\.\.>|\.->)/g, ...)
RECURSIVE QuoteEdgeLabels(_, _)
QuoteEdgeLabels(s, p) ==
    IF p > Len(s) THEN <<>>
    ELSE LET C == IF LineStyleAt(s, p) THEN EdgeLabelSplits(s, p) ELSE {}
         IN  IF C # {}
             THEN LET c == FirstSplit(C)
                      a == p + 2 + c[1]
                      e == a + c[2] + c[3]
                      n == ArrowLenAt(s, e)
                  IN  SubSeq(s, p, p + 1) \o <<" ">> \o Quote
                      \o Trim(SubSeq(s, a, a + c[2] - 1))
                      \o Quote \o <<" ">> \o SubSeq(s, e, e + n - 1)
                      \o QuoteEdgeLabels(s, e + n)
             ELSE <<s[p]>> \o QuoteEdgeLabels(s, p + 1)

\* sanitizeMermaid (lines 101-123): the four replacements in the order of
\* the code, each applied to the whole result of the one before
sanitizeMermaid(code) ==
    CHOOSE out \in
        { QuoteEdgeLabels(s3, 1) :
            s3 \in { EscapePipeParens(s2, 1) :
                s2 \in { QuoteNodeLabels(s1, 1) :
                    s1 \in { StripSemicolons(s0, 1) : s0 \in {code} } } } } : TRUE

----------------------------------------------------------------------------
(* Inputs of the segmenter                                                 *)

MaxChunks == 5

SegChunks ==
    { FenceOpen, FenceClose, <<"\n">>, <<" ">>, <<"p", "i", "e">>, <<"x">>,
      <<"-", "-", ">">>, <<"e", "n", "d">> }

RECURSIVE ChunkTexts(_, _)
ChunkTexts(chunks, n) ==
    IF n = 0 THEN {<<>>}
    ELSE LET shorter == ChunkTexts(chunks, n - 1)
         IN  shorter \cup {t \o c : t \in shorter, c \in chunks}

InitSeg ==
    /\ text \in ChunkTexts(SegChunks, MaxChunks)
    /\ segments = <<>>
    /\ segPc = "start"
    /\ IdleSan
    /\ IdleRender
    /\ IdleChat

ParseSegments ==
    /\ segPc = "start"
    /\ segments' = parseSegments(text)
    /\ segPc' = "parsed"
    /\ UNCHANGED <<text, sanVars, renderVars, chatVars>>

NextSeg == ParseSegments

SpecSeg == InitSeg /\ [][NextSeg]_vars

\* Texts without fences, given line by line
MaxLines == 4

RawExample ==
    << <<"N", "o", "t", "e", "s">>,
       <<"f", "l", "o", "w", "c", "h", "a", "r", "t", " ", "T", "D">>,
       <<" ", " ", "A", " ", "-", "-", ">", " ", "B">>,
       <<"M", "o", "r", "e", " ", "t", "e", "x", "t">> >>

RawLines ==
    { RawExample[1], RawExample[2], RawExample[3], RawExample[4],
      <<>>,
      <<" ", " ", " ", " ", "x">>,
      <<"\t", "y", " ">>,
      <<"e", "n", "d">>,
      <<"B", "[", "o", "k", "]">>,
      <<"s", "t", "y", "l", "e", " ", "A">> }

RECURSIVE LineSeqs(_)
LineSeqs(n) ==
    IF n = 1 THEN {<<l>> : l \in RawLines}
    ELSE LET shorter == LineSeqs(n - 1)
         IN  shorter \cup {Append(ls, l) : ls \in shorter, l \in RawLines}

InitRaw ==
    /\ text \in {JoinLines(ls) : ls \in LineSeqs(MaxLines)}
    /\ segments = <<>>
    /\ segPc = "start"
    /\ IdleSan
    /\ IdleRender
    /\ IdleChat

SpecRaw == InitRaw /\ [][NextSeg]_vars

----------------------------------------------------------------------------
(* Inputs of the sanitizer: one bracketed label in a context               *)

MaxLabel == 3

LabelChunks ==
    { <<"x">>, <<"\"">>, <<"(">>, <<")">>, <<":">>, <<"/">>, <<" ">>, <<"|">> }

ExamplePre ==
    <<"A", "[", "S", "t", "a", "r", "t", "]", " ", "-", "-", ">", " ", "B">>

ExampleLabel == <<"E", "n", "d", " ", "(", "d", "o", "n", "e", ")">>

SanLabels == (ChunkTexts(LabelChunks, MaxLabel) \ {<<>>}) \cup {ExampleLabel}

SanPre == { <<>>, <<"A">>, ExamplePre }

SanPost ==
    { <<>>, <<";">>, <<"|", "(", "|">>,
      <<" ", "-", "-", " ", "x", " ", "-", "-", ">", " ", "B">> }

SanSource(p) == p.pre \o <<"[">> \o p.label \o <<"]">> \o p.post

InitSan ==
    /\ sanParts \in [pre : SanPre, label : SanLabels, post : SanPost]
    /\ sanitized = <<>>
    /\ sanPc = "start"
    /\ IdleSeg
    /\ IdleRender
    /\ IdleChat

Sanitize ==
    /\ sanPc = "start"
    /\ sanitized' = sanitizeMermaid(SanSource(sanParts))
    /\ sanPc' = "done"
    /\ UNCHANGED <<sanParts, segVars, renderVars, chatVars>>

NextSan == Sanitize

SpecSan == InitSan /\ [][NextSan]_vars

----------------------------------------------------------------------------
(* render(): one invocation per mount and per change of props.content      *)
(*                                                                         *)
(* An invocation is a record: segs (parseSegments of the content it read), *)
(* i (the segment of the for loop), result (the local list), pc ("await1": *)
(* suspended at line 167, "await2": at line 173, "done": returned,         *)
(* "rejected": an error left render), id (the id of line 163), log (the    *)
(* mermaid.render calls it issued: segment, id, source and state           *)
(* "pending", "resolved" or "rejected") and writes (the assignments to     *)
(* rendered.value it made).                                                *)

MaxInv == 3

\* marked.parse(text): the converter is a library, its result is opaque
Marked(s) == <<"marked.parse", s>>

HtmlUnit(s) == [type |-> "html", html |-> Marked(s)]

\* { svg } of a resolved mermaid.render(id, source)
SvgUnit(a) == [type |-> "svg", svg |-> <<"svg", a.id, a.source>>]

\* the unit of line 178
FallbackUnit(seg) ==
    [type |-> "html",
     html |-> << "<pre class=\"bg-gray-200 p-2 rounded text-sm overflow-x-auto\"><code>",
                 escapeHtml(seg.text),
                 "</code></pre>" >>]

\* the id of line 163: Date.now() and Math.random() give an id not drawn
\* before
FreshId(n) == <<n + 1>>

\* id + 'r'
RetryId(id) == Append(id, "r")

\* cleanupMermaidElement that removes nothing
cleanupNothing(ns, id) == ns

\* the ids registered after cleanupMermaidElement(id)
cleanupMermaidElement(ns, id) == ns \ {id}

Attempt(k, id, source) ==
    [seg |-> k, id |-> id, source |-> source, state |-> "pending"]

LastAttempt(inv) == inv.log[Len(inv.log)]

\* rendered.value after a step of an invocation, written at every step
\* and not only on return
PublishEveryStep(inv, old) == inv.result

\* rendered.value after a step of an invocation (line 183)
Publish(inv, old) == IF inv.pc = "done" THEN inv.result ELSE old

\* RunLoop that issues the render of every remaining diagram segment at
\* once and then waits for the first
RECURSIVE IssueAll(_, _, _)
IssueAll(inv, k, n) ==
    IF k > Len(inv.segs) THEN inv
    ELSE IF inv.segs[k].type = "mermaid"
         THEN IssueAll([inv EXCEPT !.log = Append(@, Attempt(k, FreshId(n),
                                        sanitizeMermaid(inv.segs[k].text)))],
                       k + 1, n + 1)
         ELSE IssueAll(inv, k + 1, n)

RECURSIVE RunLoopEager(_, _)
RunLoopEager(inv, n) ==
    IF inv.i > Len(inv.segs)
    THEN [inv EXCEPT !.pc = "done", !.writes = @ + 1]
    ELSE IF inv.segs[inv.i].type = "md"
         THEN RunLoopEager([inv EXCEPT !.result = Append(@, HtmlUnit(inv.segs[inv.i].text)),
                                       !.i = @ + 1], n)
         ELSE IF \E j \in 1..Len(inv.log) : inv.log[j].seg >= inv.i
              THEN [inv EXCEPT !.pc = "await1", !.id = FreshId(n)]
              ELSE [IssueAll(inv, inv.i, n) EXCEPT !.pc = "await1", !.id = FreshId(n)]

\* The for loop of lines 159-182 from segment inv.i on, up to the next
\* await or the return: prose units are pushed, the first diagram segment
\* gets its id and its first mermaid.render call (the sanitized source), and
\* past the last segment rendered.value is assigned.  n: the ids drawn.
RECURSIVE RunLoop(_, _)
RunLoop(inv, n) ==
    IF inv.i > Len(inv.segs)
    THEN [inv EXCEPT !.pc = "done", !.writes = @ + 1]
    ELSE IF inv.segs[inv.i].type = "md"
         THEN RunLoop([inv EXCEPT !.result = Append(@, HtmlUnit(inv.segs[inv.i].text)),
                                  !.i = @ + 1], n)
         ELSE [inv EXCEPT !.pc = "await1",
                          !.id = FreshId(n),
                          !.log = Append(@, Attempt(inv.i, FreshId(n),
                                                    sanitizeMermaid(inv.segs[inv.i].text)))]

\* the ids drawn after a step that led to inv
IdsAfter(inv, n) ==
    IF inv.pc = "await1" /\ LastAttempt(inv).id = FreshId(n) THEN n + 1 ELSE n

\* render() up to its first await (lines 157-167)
NewInvocation(c, n) ==
    RunLoop([segs |-> parseSegments(c), i |-> 1, result |-> <<>>, pc |-> "start",
             id |-> <<>>, log |-> <<>>, writes |-> 0], n)

StartRender(c) ==
    LET inv == NewInvocation(c, nextId)
    IN  /\ invs' = Append(invs, inv)
        /\ rendered' = Publish(inv, rendered)
        /\ nextId' = IdsAfter(inv, nextId)
        /\ UNCHANGED namespace

\* onMounted(render)
Mount ==
    /\ ~mounted
    /\ mounted' = TRUE
    /\ StartRender(content)
    /\ UNCHANGED <<content, segVars, sanVars, chatVars>>

\* the parent gives the message another content: watch(() => props.content,
\* render)
ChangeContent(c) ==
    /\ mounted
    /\ c # content
    /\ Len(invs) < MaxInv
    /\ content' = c
    /\ StartRender(c)
    /\ UNCHANGED <<mounted, segVars, sanVars, chatVars>>

\* mermaid.render settles: it resolves, or it rejects and may leave the
\* element it registered under the id of the call in the document
MermaidSettle(k, ok, leaves) ==
    /\ k \in 1..Len(invs)
    /\ invs[k].pc \in {"await1", "await2"}
    /\ LastAttempt(invs[k]).state = "pending"
    /\ invs' = [invs EXCEPT ![k].log[Len(invs[k].log)].state =
                                IF ok THEN "resolved" ELSE "rejected"]
    /\ namespace' = IF ~ok /\ leaves
                    THEN namespace \cup {LastAttempt(invs[k]).id}
                    ELSE namespace
    /\ UNCHANGED <<content, mounted, rendered, nextId, segVars, sanVars, chatVars>>

\* lines 175-179: the second call failed
SecondFailure(inv, n) ==
    RunLoop([inv EXCEPT !.result = Append(@, FallbackUnit(inv.segs[inv.i])),
                        !.i = @ + 1], n)

\* lines 169-173: the first call failed, the second call is issued with the
\* source as it came
FirstFailure(inv, n) ==
    [inv EXCEPT !.pc = "await2",
                !.log = Append(@, Attempt(inv.i, RetryId(inv.id),
                                          inv.segs[inv.i].text))]

\* lines 168 and 174: a call resolved
Resolved(inv, n) ==
    RunLoop([inv EXCEPT !.result = Append(@, SvgUnit(LastAttempt(inv))),
                        !.i = @ + 1], n)

\* render() resumes after its await, up to the next await or the return
Resume(k) ==
    /\ k \in 1..Len(invs)
    /\ invs[k].pc \in {"await1", "await2"}
    /\ LastAttempt(invs[k]).state # "pending"
    /\ LET inv    == invs[k]
           failed == LastAttempt(inv).state = "rejected"
       IN  \E next \in { IF ~failed THEN Resolved(inv, nextId)
                         ELSE IF inv.pc = "await1" THEN FirstFailure(inv, nextId)
                         ELSE SecondFailure(inv, nextId) } :
           /\ invs' = [invs EXCEPT ![k] = next]
           /\ namespace' = IF failed
                           THEN cleanupMermaidElement(namespace, LastAttempt(inv).id)
                           ELSE namespace
           /\ rendered' = Publish(next, rendered)
           /\ nextId' = IdsAfter(next, nextId)
    /\ UNCHANGED <<content, mounted, segVars, sanVars, chatVars>>

\* The contents a message is given: prose only; two fenced diagrams around
\* prose
Contents ==
    { <<"h", "i">>,
      FenceOpen \o <<"\n", "A", "[", "<", "(", "&", "]", ";", "\n">> \o FenceClose
          \o <<"x">> \o FenceOpen \o <<"\n", "B", "\n">> \o FenceClose }

InitRender ==
    /\ content \in Contents
    /\ mounted = FALSE
    /\ rendered = <<>>
    /\ invs = <<>>
    /\ namespace = {}
    /\ nextId = 0
    /\ IdleSeg
    /\ IdleSan
    /\ IdleChat

NextRender ==
    \/ Mount
    \/ \E c \in Contents : ChangeContent(c)
    \/ \E k \in 1..MaxInv, ok \in BOOLEAN, leaves \in BOOLEAN : MermaidSettle(k, ok, leaves)
    \/ \E k \in 1..MaxInv : Resume(k)

SpecRender == InitRender /\ [][NextRender]_vars

\* every pending call settles (the assumption of C1) and every settled
\* call's continuation is run by the event loop
SpecRenderFair ==
    /\ SpecRender
    /\ \A k \in 1..MaxInv :
          /\ WF_vars(\E ok \in BOOLEAN, leaves \in BOOLEAN : MermaidSettle(k, ok, leaves))
          /\ WF_vars(Resume(k))

----------------------------------------------------------------------------
(* The chat transcript: useChat and the form of ChatPanel                  *)

\* the calls of sendMessage the model follows
MaxSends == 2

\* the first entry of messages (lines 70-72)
Greeting ==
    [role |-> "assistant",
     content |-> <<"Ask me anything and I'll retrieve the docs and cite relevant sources.">>,
     sources |-> <<>>]

UserMessage(query) == [role |-> "user", content |-> query, sources |-> <<>>]

NoData == [answer |-> <<>>, sources |-> <<>>]

\* What fetch('/api/query') gives: it rejects (the network failed), or it
\* resolves to a response with a status and a body.
Responses ==
    { [rejects |-> TRUE, message |-> <<"Failed to fetch">>, ok |-> FALSE,
       status |-> 0, body |-> NoData],
      [rejects |-> FALSE, message |-> <<>>, ok |-> FALSE,
       status |-> 500, body |-> NoData],
      [rejects |-> FALSE, message |-> <<>>, ok |-> TRUE,
       status |-> 200, body |-> [answer |-> <<"It is 42.">>, sources |-> <<"report.pdf">>]] }

Fulfilled(v) == [fulfilled |-> TRUE, value |-> v, reason |-> <<>>]

Rejected(m) == [fulfilled |-> FALSE, value |-> NoData, reason |-> m]

\* postQuery: the promise it returns, for the response res of fetch
postQuery(res) ==
    IF res.rejects THEN Rejected(res.message)
    ELSE IF ~res.ok THEN Rejected(<<"Query failed: ", ToString(res.status)>>)
    ELSE Fulfilled(res.body)

\* the assistant message of the try block (lines 81-85) or of the catch
\* block (lines 87-91)
AssistantMessage(outcome) ==
    IF outcome.fulfilled
    THEN [role |-> "assistant", content |-> outcome.value.answer,
          sources |-> outcome.value.sources]
    ELSE [role |-> "assistant", content |-> <<"Error: ">> \o outcome.reason,
          sources |-> <<>>]

\* sendMessage without its catch block: a rejection leaves the call as its
\* error
AfterAwaitNoCatch(call, outcome) ==
    IF outcome.fulfilled
    THEN [call EXCEPT !.pc = "returned",
                      !.pushed = Append(@, AssistantMessage(outcome))]
    ELSE [call EXCEPT !.pc = "threw"]

\* sendMessage from its await on (lines 80-94)
AfterAwait(call, outcome) ==
    [call EXCEPT !.pc = "returned",
                 !.pushed = Append(@, AssistantMessage(outcome))]

\* The form is submitted with the text input in the field: handleSubmit
\* (it returns on a blank input) and sendMessage up to its await.  The field
\* and the button are disabled while loading.
HandleSubmit(input) ==
    LET query == Trim(input)
    IN  /\ ~loading
        /\ query # <<>>
        /\ Len(calls) < MaxSends
        /\ messages' = Append(messages, UserMessage(query))
        /\ loading' = TRUE
        /\ calls' = Append(calls, [query |-> query, pc |-> "await",
                                   pushed |-> <<UserMessage(query)>>,
                                   response |-> <<>>])
        /\ UNCHANGED <<cleared, segVars, sanVars, renderVars>>

\* fetch settles with res and sendMessage runs from its await to its end
Reply(res) ==
    /\ calls # <<>>
    /\ calls[Len(calls)].pc = "await"
    /\ \E call \in { AfterAwait([calls[Len(calls)] EXCEPT !.response = <<res>>],
                                postQuery(res)) } :
          /\ calls' = [calls EXCEPT ![Len(calls)] = call]
          /\ messages' = messages \o SubSeq(call.pushed, 2, Len(call.pushed))
    /\ loading' = FALSE
    /\ UNCHANGED <<cleared, segVars, sanVars, renderVars>>

\* The Clear Chat button, which is never disabled: clearChat (lines 97-99)
ClearChat ==
    /\ messages' = <<messages[1]>>
    /\ cleared' = TRUE
    /\ UNCHANGED <<loading, calls, segVars, sanVars, renderVars>>

\* the texts typed into the field
Inputs == { <<" ">>, <<"a">>, <<" ", "b", " ">> }

InitChat ==
    /\ messages = <<Greeting>>
    /\ loading = FALSE
    /\ calls = <<>>
    /\ cleared = FALSE
    /\ IdleSeg
    /\ IdleSan
    /\ IdleRender

NextChat ==
    \/ \E input \in Inputs : HandleSubmit(input)
    \/ \E res \in Responses : Reply(res)
    \/ ClearChat

SpecChat == InitChat /\ [][NextChat]_vars

----------------------------------------------------------------------------
(* Coverage of the text by the segments                                    *)

\* From position p on, t is segs[i], segs[i + 1], ... in this order, with
\* nothing but white space before, between and after them.
RECURSIVE CoversPlain(_, _, _, _)
CoversPlain(t, p, segs, i) ==
    IF i > Len(segs) THEN WsRunEnd(t, p) = Len(t) + 1
    ELSE \E q \in p..WsRunEnd(t, p) :
            /\ StartsWithAt(t, segs[i].text, q)
            /\ CoversPlain(t, q + Len(segs[i].text), segs, i + 1)

\* The same, where every diagram segment stands between an opening fence
\* and a closing fence, which belong to no segment.
RECURSIVE CoversFenced(_, _, _, _)
CoversFenced(t, p, segs, i) ==
    IF i > Len(segs) THEN WsRunEnd(t, p) = Len(t) + 1
    ELSE \E q \in p..WsRunEnd(t, p) :
            IF segs[i].type = "mermaid"
            THEN /\ StartsWithAt(t, FenceOpen, q)
                 /\ LET b0 == q + Len(FenceOpen)
                    IN  \E b \in b0..WsRunEnd(t, b0) :
                           /\ StartsWithAt(t, segs[i].text, b)
                           /\ LET e0 == b + Len(segs[i].text)
                              IN  \E e \in e0..WsRunEnd(t, e0) :
                                     /\ StartsWithAt(t, FenceClose, e)
                                     /\ CoversFenced(t, e + Len(FenceClose), segs, i + 1)
            ELSE /\ StartsWithAt(t, segs[i].text, q)
                 /\ CoversFenced(t, q + Len(segs[i].text), segs, i + 1)

HasFencedBlock(t) == NextFencedMatch(t, 1).index # 0

\* C7, as stated: the segments of parseSegments(text), in order, are the
\* whole text up to white space at the segment boundaries; no other
\* character of the text is outside every segment.
SegmentsCoverText ==
    segPc = "parsed" => CoversPlain(text, 1, segments, 1)

\* C7, amended: the segments, in order, are the whole text up to white
\* space at the segment boundaries and, when the fenced pass found blocks,
\* up to the opening and closing fence of every diagram segment, which
\* belong to no segment.
SegmentsCoverTextOutsideFences ==
    segPc = "parsed" =>
        IF HasFencedBlock(text)
        THEN CoversFenced(text, 1, segments, 1)
        ELSE CoversPlain(text, 1, segments, 1)

\* C7's case: a fenced block with prose before and after it has been parsed
FencedTextParsed ==
    /\ segPc = "parsed"
    /\ Len(segments) = 3
    /\ segments[1].type = "md" /\ Trim(segments[1].text) # <<>>
    /\ segments[2].type = "mermaid" /\ segments[2].text # <<>>
    /\ segments[3].type = "md" /\ Trim(segments[3].text) # <<>>
    /\ HasFencedBlock(text)

----------------------------------------------------------------------------
(* The raw-detection pass, line by line                                    *)

\* the line predicate as C8 words it
KeepsDiagram(line) ==
    LET t == Trim(line)
    IN  \/ t = <<>>
        \/ StartsWith(line, <<"\t">>)
        \/ StartsWith(line, <<" ", " ", " ", " ">>)
        \/ KeywordAt(line, 1)
        \/ \E d \in { <<"s", "t", "y", "l", "e", " ">>,
                       <<"c", "l", "a", "s", "s", " ">>,
                       <<"c", "l", "a", "s", "s", "D", "e", "f", " ">>,
                       <<"s", "u", "b", "g", "r", "a", "p", "h">>,
                       <<"e", "n", "d">>,
                       <<"d", "i", "r", "e", "c", "t", "i", "o", "n", " ">> } :
               StartsWith(t, d)
        \/ \E e \in { <<"-", "-", ">">>, <<"-", "-", "-">>, <<"-", ".", "-", ">">> } :
               Includes(t, e)
        \/ \E n \in 1..(Len(t) - 1) :
               /\ \A k \in 1..n : t[k] \in WordChars
               /\ t[n + 1] \in {"[", "(", "{"}

\* the segments C8 describes for a text with a keyword line and no fence
RawSegmentsByLines(t) ==
    LET lines  == SplitLines(t)
        first  == SetMin({i \in 1..Len(lines) : KeywordAt(lines[i], 1)})
        stop   == SetMin({i \in first..(Len(lines) + 1) :
                             i = Len(lines) + 1 \/ ~KeepsDiagram(lines[i])})
        before == Trim(JoinLines(SubSeq(lines, 1, first - 1)))
        body   == Trim(JoinLines(SubSeq(lines, first, stop - 1)))
        after  == Trim(JoinLines(SubSeq(lines, stop, Len(lines))))
    IN  (IF before # <<>> THEN <<Md(before)>> ELSE <<>>)
        \o <<Mermaid(body)>>
        \o (IF after # <<>> THEN <<Md(after)>> ELSE <<>>)

HasKeywordLine(t) == \E i \in 1..Len(SplitLines(t)) : KeywordAt(SplitLines(t)[i], 1)

\* C8: without a fenced block, the diagram segment is the maximal run of
\* lines from the first keyword line on that each keep the diagram going
\* (blank, indented, keyword, directive, edge token, node declaration),
\* trimmed; the first line that does not and all lines after it are the
\* trailing prose; prose before and after is emitted only when non-empty;
\* and the example of the claim segments as the claim says.
RawDetectionByLines ==
    segPc = "parsed" =>
        /\ (~HasFencedBlock(text) /\ HasKeywordLine(text)
                => segments = RawSegmentsByLines(text))
        /\ (text = JoinLines(RawExample)
                => segments = << Md(RawExample[1]),
                                 Mermaid(JoinLines(<<RawExample[2], RawExample[3]>>)),
                                 Md(RawExample[4]) >>)

\* C8's case: a keyword line after prose, a diagram body, and trailing
\* prose that holds a line with an edge token
RawTextParsed ==
    /\ segPc = "parsed"
    /\ ~HasFencedBlock(text)
    /\ Len(segments) = 3
    /\ segments[2].type = "mermaid"
    /\ Includes(segments[3].text, <<"-", "-", ">">>)

----------------------------------------------------------------------------
(* The bracket-label rule of the sanitizer                                 *)

\* the rules after the bracket-label rule, which run on its result
LaterRules(s) == QuoteEdgeLabels(EscapePipeParens(s, 1), 1)

HasSpecialChar(l) == \E i \in 1..Len(l) : l[i] \in {"(", ")", "/", ":", "\""}

WithoutQuotes(l) == SelectSeq(l, LAMBDA c : c # "\"")

\* the label C9 says the rule writes
LabelAsClaimed(l) ==
    IF Len(l) >= 2 /\ l[1] = "\"" /\ l[Len(l)] = "\"" THEN l
    ELSE IF HasSpecialChar(l) THEN <<"\"">> \o WithoutQuotes(l) \o <<"\"">>
    ELSE l

\* the label the amended C9 says the rule writes
LabelAsAmended(l) ==
    LET t == Trim(l)
    IN  IF Len(t) >= 1 /\ t[1] = "\"" /\ t[Len(t)] = "\"" THEN l
        ELSE IF HasSpecialChar(l) THEN <<"\"">> \o WithoutQuotes(t) \o <<"\"">>
        ELSE l

----------------------------------------------------------------------------
(* The render pipeline                                                     *)

AttemptsOf(inv, j) == SelectSeq(inv.log, LAMBDA a : a.seg = j)

\* text with & < > written as entities, character by character
Escaped(s) ==
    Concat([i \in 1..Len(s) |->
               CASE s[i] = "&" -> <<"&", "a", "m", "p", ";">>
                 [] s[i] = "<" -> <<"&", "l", "t", ";">>
                 [] s[i] = ">" -> <<"&", "g", "t", ";">>
                 [] OTHER -> <<s[i]>>])

IsFallbackOf(unit, src) ==
    /\ unit.type = "html"
    /\ Len(unit.html) = 3
    /\ unit.html[2] = Escaped(src)

\* the calls issued for diagram segment j of inv follow the chain:
\* sanitized source first, the source as it came only after a failure
ChainOrdered(inv, j) ==
    LET A   == AttemptsOf(inv, j)
        src == inv.segs[j].text
    IN  /\ Len(A) <= 2
        /\ Len(A) >= 1 => A[1].source = sanitizeMermaid(src)
        /\ Len(A) = 2 => A[1].state = "rejected" /\ A[2].source = src

\* the one unit of a diagram segment that is through: the graphic of the
\* call that resolved, or after two failures the escaped source
ChainUnit(inv, j) ==
    LET A   == AttemptsOf(inv, j)
        src == inv.segs[j].text
    IN  /\ Len(A) >= 1
        /\ IF A[Len(A)].state = "resolved"
           THEN inv.result[j] = SvgUnit(A[Len(A)])
           ELSE /\ Len(A) = 2
                /\ A[2].state = "rejected"
                /\ IsFallbackOf(inv.result[j], src)

FallbackChainHolds ==
    \A k \in 1..Len(invs) :
        LET inv == invs[k]
        IN  /\ inv.pc # "rejected"
            /\ Len(inv.result) = inv.i - 1
            /\ \A j \in 1..Len(inv.segs) :
                  inv.segs[j].type = "mermaid" =>
                      /\ ChainOrdered(inv, j)
                      /\ j < inv.i => ChainUnit(inv, j)

\* every invocation returns, having assigned rendered.value
RenderPublishes ==
    \A k \in 1..MaxInv :
        (Len(invs) >= k) ~> (Len(invs) >= k /\ invs[k].pc = "done")

\* C1: whatever the calls of mermaid.render do, a diagram segment gives
\* exactly one unit and no error leaves render(): the sanitized source is
\* tried first, the source as it came only after that failed, and only
\* after both failed the unit is the code block of the HTML-escaped source
\* as it came; and when every call settles, render() publishes.
RenderFallbackChain == []FallbackChainHolds /\ RenderPublishes

\* C1's case: an invocation returned with the code block of a segment that
\* the sanitizer changes and that holds characters to escape
FallbackPublished ==
    \E k \in 1..Len(invs) :
        /\ invs[k].pc = "done"
        /\ \E j \in 1..Len(invs[k].segs) :
              /\ invs[k].segs[j].type = "mermaid"
              /\ sanitizeMermaid(invs[k].segs[j].text) # invs[k].segs[j].text
              /\ Escaped(invs[k].segs[j].text) # invs[k].segs[j].text
              /\ invs[k].result[j].type = "html"
              /\ rendered = invs[k].result

AllReturned == mounted /\ \A k \in 1..Len(invs) : invs[k].pc = "done"

\* C2: once every invocation has returned, the displayed list is the one
\* computed from the latest content, in whatever order they returned.
LatestRenderWins ==
    AllReturned => rendered = invs[Len(invs)].result

\* unit u is the unit of segment j of inv
UnitOfSegment(inv, j, u) ==
    IF inv.segs[j].type = "md" THEN u = HtmlUnit(inv.segs[j].text)
    ELSE \/ IsFallbackOf(u, inv.segs[j].text)
         \/ \E a \in 1..Len(inv.log) :
               inv.log[a].seg = j /\ u = SvgUnit(inv.log[a])

\* C3: an invocation assigns the displayed list once, when it returns,
\* after every segment is through; the list it assigns has one unit per
\* segment, unit j from segment j; and the displayed list is always empty
\* (nothing returned yet) or the whole list of one invocation that returned.
PublishedOnceInOrder ==
    /\ \A k \in 1..Len(invs) :
          /\ invs[k].writes = IF invs[k].pc = "done" THEN 1 ELSE 0
          /\ invs[k].pc = "done" =>
                /\ Len(invs[k].result) = Len(invs[k].segs)
                /\ \A j \in 1..Len(invs[k].segs) :
                      UnitOfSegment(invs[k], j, invs[k].result[j])
    /\ IF \E k \in 1..Len(invs) : invs[k].pc = "done"
       THEN \E k \in 1..Len(invs) : invs[k].pc = "done" /\ rendered = invs[k].result
       ELSE rendered = <<>>

\* C3's case: an invocation over three segments returned; its first
\* diagram failed twice, its second resolved
ThreeUnitsPublished ==
    \E k \in 1..Len(invs) :
        /\ invs[k].pc = "done"
        /\ Len(invs[k].segs) = 3
        /\ rendered = invs[k].result
        /\ IsFallbackOf(rendered[1], invs[k].segs[1].text)
        /\ rendered[2].type = "html"
        /\ rendered[3].type = "svg"

\* the calls that rejected and whose catch block has not run yet
UnhandledFailures ==
    {k \in 1..Len(invs) : /\ invs[k].pc \in {"await1", "await2"}
                          /\ LastAttempt(invs[k]).state = "rejected"}

\* C4: the element of a failed call is removed before the next call of
\* the segment is issued or its code block is produced: only calls whose
\* catch block has not run yet have an element registered, the two calls
\* of a segment never share an id, and no element is left when every
\* invocation has returned.
FailedArtifactsRemoved ==
    /\ namespace \subseteq {LastAttempt(invs[k]).id : k \in UnhandledFailures}
    /\ \A k \in 1..Len(invs) :
          /\ invs[k].pc = "await2" =>
                /\ invs[k].id \notin namespace
                /\ LastAttempt(invs[k]).id # invs[k].id
          /\ \A a, b \in 1..Len(invs[k].log) :
                a # b => invs[k].log[a].id # invs[k].log[b].id
    /\ AllReturned => namespace = {}

\* C4's case: the second call of a segment failed and left its element,
\* after the first call failed
SecondArtifactRegistered ==
    \E k \in 1..Len(invs) :
        /\ invs[k].pc = "await2"
        /\ LastAttempt(invs[k]).state = "rejected"
        /\ RetryId(invs[k].id) \in namespace

Suspended(inv) == inv.pc \in {"await1", "await2"}

\* C5, as stated: the renders of all diagram segments of an invocation are
\* issued without waiting for earlier ones: while the render of a segment
\* is unresolved, the render of every later diagram segment has been issued.
AllRendersIssued ==
    \A k \in 1..Len(invs) :
        Suspended(invs[k]) =>
            \A j \in (invs[k].i + 1)..Len(invs[k].segs) :
                invs[k].segs[j].type = "mermaid" => AttemptsOf(invs[k], j) # <<>>

\* C5, amended: within an invocation the renders are issued one segment at
\* a time, in segment order: a render is issued only when the units of all
\* earlier segments are in the list, so an invocation has at most one
\* unresolved render and none for a segment after the current one.
OneRenderAtATime ==
    \A k \in 1..Len(invs) :
        LET inv == invs[k]
        IN  /\ \A a \in 1..Len(inv.log) :
                  /\ inv.log[a].seg <= inv.i
                  /\ inv.log[a].state = "pending" =>
                        /\ a = Len(inv.log)
                        /\ Suspended(inv)
                        /\ inv.log[a].seg = inv.i
            /\ Suspended(inv) => Len(inv.result) = inv.i - 1

\* C5's case: a render is unresolved and a later diagram segment waits
LaterDiagramWaits ==
    \E k \in 1..Len(invs) :
        /\ Suspended(invs[k])
        /\ LastAttempt(invs[k]).state = "pending"
        /\ \E j \in (invs[k].i + 1)..Len(invs[k].segs) :
              invs[k].segs[j].type = "mermaid"

----------------------------------------------------------------------------
(* The chat transcript                                                     *)

\* what the failure of a request says
FailureDescription(res) ==
    IF res.rejects THEN res.message
    ELSE <<"Query failed: ", ToString(res.status)>>

RequestFailed(res) == res.rejects \/ ~res.ok

RECURSIVE PushedBy(_)
PushedBy(cs) == IF cs = <<>> THEN <<>> ELSE Head(cs).pushed \o PushedBy(Tail(cs))

\* C6: a call of sendMessage pushes the user message and then, whether
\* the request succeeds or fails, exactly one assistant message, and ends
\* with loading false; after a failure that message is 'Error: ' and the
\* failure description, with no sources; no error leaves the call; so
\* loading is true only while a call awaits, and the transcript that was
\* never cleared is the greeting and the messages of the calls in order.
SendMessageSettles ==
    /\ \A k \in 1..Len(calls) :
          LET call == calls[k]
          IN  /\ call.pc \in {"await", "returned"}
              /\ call.pushed[1] = UserMessage(call.query)
              /\ call.pc = "await" => Len(call.pushed) = 1 /\ k = Len(calls)
              /\ call.pc = "returned" =>
                    /\ Len(call.pushed) = 2
                    /\ call.pushed[2].role = "assistant"
                    /\ RequestFailed(call.response[1]) =>
                          /\ call.pushed[2].content =
                                <<"Error: ">> \o FailureDescription(call.response[1])
                          /\ call.pushed[2].sources = <<>>
    /\ loading = (\E k \in 1..Len(calls) : calls[k].pc = "await")
    /\ ~cleared => messages = <<Greeting>> \o PushedBy(calls)

\* C6's case: a request failed with a status, its call returned, and the
\* form was submitted again
RetriedAfterFailure ==
    /\ Len(calls) = 2
    /\ calls[1].pc = "returned"
    /\ ~calls[1].response[1].rejects /\ ~calls[1].response[1].ok
    /\ messages[3].content = <<"Error: ", "Query failed: ", "500">>
    /\ loading

\* C10: the first entry of the transcript is the greeting, and every other
\* assistant entry comes right after the user entry whose query produced it.
RepliesFollowQuestions ==
    /\ messages[1] = Greeting
    /\ \A i \in 2..Len(messages) :
          messages[i].role = "assistant" =>
              /\ messages[i - 1].role = "user"
              /\ \E k \in 1..Len(calls) :
                    calls[k].pushed = <<messages[i - 1], messages[i]>>

====
